---- MODULE Spec2Model ----
(***************************************************************************)
(* Model of the word-cutout identifier codec (packBigInt_Factory /         *)
(* unpackBigInt_Factory, convertWordIdToUUId / convertWordUUIdToId) and of *)
(* the IndexedDB-backed cache WordsData (putWord, putWords, getWord) with  *)
(* its three object stores "id", "info" and "mask".                        *)
(*                                                                         *)
(* Numbers.  A field of an identifier is a small JavaScript number and is  *)
(* a natural number here.  A bigint, and the integer-valued double that    *)
(* Number(bigint) returns, is a sequence of bits, least significant bit    *)
(* first, without high zero bits (<<>> is 0): packed identifiers have up   *)
(* to 52 bits and more when a field is out of range.                       *)
(*                                                                         *)
(* Optional values.  A value that may be `undefined` is a sequence of      *)
(* length at most one: <<>> is undefined, <<v>> is the value v.            *)
(***************************************************************************)
EXTENDS Integers, Sequences, FiniteSets, TLC

VARIABLES
    c_fn,        \* codec run: the pair of functions run: "word", "page" or "bigint"
    c_sizes,     \* codec run: the bit_sizes given to both factories ("bigint")
    c_pc,        \* codec run: "start", "packed" or "unpacked"
    c_in,        \* codec run: the array given to the packing function
    c_uuid,      \* codec run: the packed identifier (a number, as bits)
    c_out,       \* codec run: the array returned by the unpacking function
    wordsDB,     \* the module-level handle: <<>> (undefined) or <<h>>
    opens,       \* number of openDB invocations so far
    id_store,    \* object store "id":   key -> boolean
    info_store,  \* object store "info": key -> info
    mask_store,  \* object store "mask": key -> mask
    txq,         \* transactions created and not yet finished, in creation order
    calls,       \* the running call of each caller
    ncalls,      \* number of calls started so far
    nfail,       \* number of storage failures so far
    flag_by      \* history: key -> the call whose write of `true` is stored

codec_vars == <<c_fn, c_sizes, c_pc, c_in, c_uuid, c_out>>
cache_vars == <<wordsDB, opens, id_store, info_store, mask_store, txq, calls, ncalls, nfail,
                flag_by>>
vars == <<c_fn, c_sizes, c_pc, c_in, c_uuid, c_out, wordsDB, opens, id_store, info_store, mask_store,
          txq, calls, ncalls, nfail, flag_by>>

(***************************************************************************)
(* Bigint arithmetic on bit sequences.                                     *)
(***************************************************************************)
Zeros(k) == [i \in 1..k |-> 0]

RECURSIVE Norm(_)
Norm(b) == IF b = <<>> THEN <<>>
           ELSE IF b[Len(b)] = 0 THEN Norm(SubSeq(b, 1, Len(b) - 1))
           ELSE b

\* an array left in the order it has
NotReversed(s) == s

Reverse(s) == [i \in 1..Len(s) |-> s[Len(s) + 1 - i]]

\* BigInt(x) for a non-negative integer number x
RECURSIVE BigInt(_)
BigInt(x) == IF x = 0 THEN <<>> ELSE <<x % 2>> \o BigInt(x \div 2)

\* Number(b) for a bigint b that fits a field (the callers mask it first)
RECURSIVE ToNat(_)
ToNat(b) == IF b = <<>> THEN 0 ELSE b[1] + 2 * ToNat(Tail(b))

\* a << k
Shl(a, k) == IF a = <<>> THEN <<>> ELSE Zeros(k) \o a

\* a >> k
Shr(a, k) == IF k >= Len(a) THEN <<>> ELSE SubSeq(a, k + 1, Len(a))

\* a mask that is one bit too wide
LowBitsOneMore(a, k) == Norm(IF k + 1 >= Len(a) THEN a ELSE SubSeq(a, 1, k + 1))

\* a & ((1n << k) - 1n)
LowBits(a, k) == Norm(IF k >= Len(a) THEN a ELSE SubSeq(a, 1, k))

Bit(a, i) == IF i <= Len(a) THEN a[i] ELSE 0

RECURSIVE AddFrom(_, _, _, _)
AddFrom(a, b, i, carry) ==
    IF i > Len(a) /\ i > Len(b)
    THEN (IF carry = 1 THEN <<1>> ELSE <<>>)
    ELSE LET s == Bit(a, i) + Bit(b, i) + carry
         IN  <<s % 2>> \o AddFrom(a, b, i + 1, s \div 2)

\* a + b
Add(a, b) == Norm(AddFrom(a, b, 1, 0))

\* Number(b): the nearest double, ties to even; exact below 2^53
Number(b) ==
    IF Len(b) <= 53 THEN b
    ELSE LET d      == Len(b) - 53
             high   == SubSeq(b, d + 1, Len(b))
             guard  == b[d]
             sticky == \E i \in 1..(d - 1) : b[i] = 1
             up     == guard = 1 /\ (sticky \/ high[1] = 1)
         IN  Zeros(d) \o (IF up THEN Add(high, <<1>>) ELSE high)

(***************************************************************************)
(* The codec.                                                              *)
(***************************************************************************)
\* a loop that adds the field before it shifts
RECURSIVE packLoopAddFirst(_, _, _, _)
packLoopAddFirst(bit_sizes_bigint, unpacked_value, i, value) ==
    IF i > Len(unpacked_value) THEN value
    ELSE packLoopAddFirst(bit_sizes_bigint, unpacked_value, i + 1,
                          Shl(Add(value, BigInt(unpacked_value[i])), bit_sizes_bigint[i]))

RECURSIVE packLoop(_, _, _, _)
packLoop(bit_sizes_bigint, unpacked_value, i, value) ==
    IF i > Len(unpacked_value) THEN value
    ELSE packLoop(bit_sizes_bigint, unpacked_value, i + 1,
                  Add(Shl(value, bit_sizes_bigint[i]), BigInt(unpacked_value[i])))

\* a packer that takes the widths in the order given, without reversing them
packBigInt_Unreversed(bit_sizes, unpacked_value) ==
    packLoop(bit_sizes, unpacked_value, 1, <<>>)

packBigInt_Factory(bit_sizes, unpacked_value) ==
    packLoop(Reverse(bit_sizes), unpacked_value, 1, <<>>)

RECURSIVE unpackLoop(_, _, _)
unpackLoop(split_bits_bigint, i, packed_value_bigint) ==
    IF i > Len(split_bits_bigint) THEN <<>>
    ELSE <<ToNat(LowBits(packed_value_bigint, split_bits_bigint[i]))>>
         \o unpackLoop(split_bits_bigint, i + 1,
                       Shr(packed_value_bigint, split_bits_bigint[i]))

\* an unpacker that returns the fields in the order it extracted them
unpackBigInt_Unreversed(bit_sizes, packed_value) ==
    unpackLoop(bit_sizes, 1, packed_value)

unpackBigInt_Factory(bit_sizes, packed_value) ==
    Reverse(unpackLoop(bit_sizes, 1, packed_value))

WordBitSizes == <<12, 4, 16, 12, 8>>

\* a packer of word identifiers that gives the page 13 bits
convertWordIdToUUIdWidePage(word_arr) ==
    Number(packBigInt_Factory(<<13, 4, 16, 12, 8>>, word_arr))

convertWordIdToUUId(word_arr) == Number(packBigInt_Factory(WordBitSizes, word_arr))

convertWordUUIdToId(uuid) == unpackBigInt_Factory(WordBitSizes, uuid)

(***************************************************************************)
(* Codec runs: one identifier is packed and unpacked again.                *)
(***************************************************************************)
EdgeSpan == 1

Pow2(w) == ToNat(Zeros(w) \o <<1>>)

\* the values tried for a field of w bits: around 0 and around 2^w - 1,
\* the last EdgeSpan of them out of range
FieldValues(w) == (0..EdgeSpan) \cup ((Pow2(w) - 1 - EdgeSpan)..(Pow2(w) - 1 + EdgeSpan))

\* the documented widths of [surah, manuscript, word, part, page]
WordIdWidths == <<8, 12, 16, 4, 12>>

CodecInputs ==
    {<<s, m, w, pt, pg>> : s \in FieldValues(WordIdWidths[1]), m \in FieldValues(WordIdWidths[2]),
                           w \in FieldValues(WordIdWidths[3]), pt \in FieldValues(WordIdWidths[4]),
                           pg \in FieldValues(WordIdWidths[5])}

InRangeWordId(id) == \A i \in 1..Len(id) : id[i] >= 0 /\ id[i] < Pow2(WordIdWidths[i])

CodecIdle == /\ c_fn = "none" /\ c_sizes = <<>>
             /\ c_pc = "idle" /\ c_in = <<>> /\ c_uuid = <<>> /\ c_out = <<>>

CodecInit == /\ c_fn = "word"
             /\ c_sizes = <<>>
             /\ c_pc = "start"
             /\ c_in \in CodecInputs
             /\ c_uuid = <<>>
             /\ c_out = <<>>

Pack == /\ c_fn = "word"
        /\ c_pc = "start"
        /\ c_uuid' = convertWordIdToUUId(c_in)
        /\ c_pc' = "packed"
        /\ UNCHANGED <<c_fn, c_sizes, c_in, c_out>>

Unpack == /\ c_fn = "word"
          /\ c_pc = "packed"
          /\ c_out' = convertWordUUIdToId(c_uuid)
          /\ c_pc' = "unpacked"
          /\ UNCHANGED <<c_fn, c_sizes, c_in, c_uuid>>

(***************************************************************************)
(* Page identifiers: [surah, manuscript, page].                            *)
(***************************************************************************)
convertPageIdToUUId(id) == Number(packBigInt_Factory(<<8, 12, 12>>, id))

convertPageUUIdToId(uuid) == unpackBigInt_Factory(<<12, 12, 8>>, uuid)

\* the documented widths of [surah, manuscript, page]
PageIdWidths == <<8, 12, 12>>

PageInputs ==
    {<<s, m, pg>> : s \in FieldValues(PageIdWidths[1]), m \in FieldValues(PageIdWidths[2]),
                    pg \in FieldValues(PageIdWidths[3])}

InRangePageId(id) == \A i \in 1..Len(id) : id[i] >= 0 /\ id[i] < Pow2(PageIdWidths[i])

PageInit == /\ c_fn = "page"
            /\ c_sizes = <<>>
            /\ c_pc = "start"
            /\ c_in \in PageInputs
            /\ c_uuid = <<>>
            /\ c_out = <<>>

PackPage == /\ c_fn = "page"
            /\ c_pc = "start"
            /\ c_uuid' = convertPageIdToUUId(c_in)
            /\ c_pc' = "packed"
            /\ UNCHANGED <<c_fn, c_sizes, c_in, c_out>>

UnpackPage == /\ c_fn = "page"
              /\ c_pc = "packed"
              /\ c_out' = convertPageUUIdToId(c_uuid)
              /\ c_pc' = "unpacked"
              /\ UNCHANGED <<c_fn, c_sizes, c_in, c_uuid>>

(***************************************************************************)
(* A packer and an unpacker made by the two factories from the same        *)
(* bit_sizes.                                                              *)
(***************************************************************************)
\* the bit_sizes tried: those of the documented example and two short ones
BitSizesInputs == {<<4, 8, 12, 12>>, <<2, 3, 7>>, <<3, 5>>}

\* the arrays of the documented example and the same in the opposite order
ExampleArrays == {<<100, 3000, 233, 15>>, <<15, 233, 3000, 100>>}

\* the arrays tried for bit_sizes: every field around the limits of the
\* width at its own position and of the width at the mirrored position
RECURSIVE EdgeArrays(_, _)
EdgeArrays(bit_sizes, i) ==
    IF i > Len(bit_sizes) THEN {<<>>}
    ELSE {<<x>> \o a : x \in FieldValues(bit_sizes[i])
                            \cup FieldValues(bit_sizes[Len(bit_sizes) + 1 - i]),
                       a \in EdgeArrays(bit_sizes, i + 1)}

BigIntInputs(bit_sizes) ==
    EdgeArrays(bit_sizes, 1) \cup {a \in ExampleArrays : Len(a) = Len(bit_sizes)}

BigIntInit == /\ c_fn = "bigint"
              /\ c_sizes \in BitSizesInputs
              /\ c_pc = "start"
              /\ c_in \in BigIntInputs(c_sizes)
              /\ c_uuid = <<>>
              /\ c_out = <<>>

PackBigInt == /\ c_fn = "bigint"
              /\ c_pc = "start"
              /\ c_uuid' = packBigInt_Factory(c_sizes, c_in)
              /\ c_pc' = "packed"
              /\ UNCHANGED <<c_fn, c_sizes, c_in, c_out>>

UnpackBigInt == /\ c_fn = "bigint"
                /\ c_pc = "packed"
                /\ c_out' = unpackBigInt_Factory(c_sizes, c_uuid)
                /\ c_pc' = "unpacked"
                /\ UNCHANGED <<c_fn, c_sizes, c_in, c_uuid>>

(***************************************************************************)
(* An unpacker applied to an integer that no packer made.                  *)
(***************************************************************************)
RECURSIVE SumOfSizes(_)
SumOfSizes(bit_sizes) ==
    IF bit_sizes = <<>> THEN 0 ELSE Head(bit_sizes) + SumOfSizes(Tail(bit_sizes))

\* the integers tried for bit_sizes: every integer of the two lowest fields,
\* and 2^k - 1 and 2^k up to EdgeSpan bits more than the widths hold
PackedInputs(bit_sizes) ==
    {BigInt(x) : x \in 0..(Pow2(bit_sizes[1] + bit_sizes[2]) - 1)}
        \cup {[j \in 1..k |-> 1] : k \in 0..(SumOfSizes(bit_sizes) + EdgeSpan)}
        \cup {Zeros(k) \o <<1>> : k \in 0..(SumOfSizes(bit_sizes) + EdgeSpan)}

UnpackInit == /\ c_fn = "unpack"
              /\ c_sizes \in BitSizesInputs
              /\ c_pc = "packed"
              /\ c_in = <<>>
              /\ c_uuid \in PackedInputs(c_sizes)
              /\ c_out = <<>>

UnpackGiven == /\ c_fn = "unpack"
               /\ c_pc = "packed"
               /\ c_out' = unpackBigInt_Factory(c_sizes, c_uuid)
               /\ c_pc' = "unpacked"
               /\ UNCHANGED <<c_fn, c_sizes, c_in, c_uuid>>

(***************************************************************************)
(* The cache: object stores, transactions and calls.                       *)
(***************************************************************************)
MaxCalls == 2
MaxFail == 1

\* the calls that can be in progress at the same time
Callers == {1, 2}

\* the identifiers the callers use: the first two words of surah 1 in
\* manuscript 11
FirstWordId == <<1, 11, 1, 0, 0>>
WordIds == {FirstWordId, <<1, 11, 2, 0, 0>>}

\* the argument lists of putWords: one identifier or more, as many as
\* there are identifiers, in any order and with repetitions
RECURSIVE SeqsUpTo(_, _)
SeqsUpTo(S, k) == IF k = 0 THEN {<<>>}
                  ELSE LET shorter == SeqsUpTo(S, k - 1)
                       IN  shorter \cup {Append(q, x) : q \in shorter, x \in S}

Batches == SeqsUpTo(WordIds, Cardinality(WordIds)) \ {<<>>}

StoreNames == {"id", "info", "mask"}

\* store.get(key): the stored value or undefined
Get(store, key) == IF key \in DOMAIN store THEN <<store[key]>> ELSE <<>>

\* a store.put that keeps the value a key already has
PutKeepingStored(store, key, value) ==
    IF key \in DOMAIN store THEN store
    ELSE [k \in (DOMAIN store) \cup {key} |-> IF k = key THEN value ELSE store[k]]

\* store.put(value, key): add the key or replace its value
Put(store, key, value) ==
    [k \in (DOMAIN store) \cup {key} |-> IF k = key THEN value ELSE store[k]]

EmptyStore == [k \in {} |-> 0]

Stores == [id |-> id_store, info |-> info_store, mask |-> mask_store]

NoStatus == [s \in StoreNames |-> "none"]
NoValues == [s \in StoreNames |-> <<>>]

\* a caller that has not called yet; `after` is history: the calls that had
\* settled when the call was made
NoCall == [op |-> "none", n |-> 0, pc |-> "done", words |-> <<>>, db |-> <<>>,
           st |-> NoStatus, got |-> NoValues, outcome |-> "none", result |-> <<>>,
           after |-> {}]

\* keys made of the surah and the manuscript only
WordUUIdsOfManuscript ==
    [id \in WordIds |-> convertWordIdToUUId(<<id[1], id[2], 0, 0, 0>>)]

\* the key of each identifier
WordUUIds == [id \in WordIds |-> convertWordIdToUUId(id)]

(***************************************************************************)
(* Transactions.  db.put(store, value, key) and db.get(store, key) each    *)
(* create a transaction over that one store with one request;              *)
(* db.transaction(names, "readwrite") creates one over several stores, to  *)
(* which requests are added while it is active.  A transaction is created  *)
(* when the call is made and runs later.  The payload written by call n is *)
(* the value n, for the info and for the mask alike.                       *)
(*                                                                         *)
(* An action is one task of the event loop: the synchronous code of a call *)
(* or the completion of openDB or of a transaction, together with the      *)
(* promise continuations it makes runnable, which run before the next      *)
(* task.                                                                   *)
(***************************************************************************)
Request(store, key, value, entry) ==
    [store |-> store, key |-> key, value |-> value, entry |-> entry]

Transaction(n, kind, mode, scope, reqs) ==
    [n |-> n, kind |-> kind, mode |-> mode, scope |-> scope, reqs |-> reqs,
     writes |-> <<>>, ok |-> {}]

DbPut(n, store, value, key) ==
    Transaction(n, "put", "readwrite", {store}, <<Request(store, key, value, 1)>>)

DbGet(n, store, key) ==
    Transaction(n, "get", "readonly", {store}, <<Request(store, key, <<>>, 1)>>)

\* two transactions that may not run at the same time
Conflict(t1, t2) ==
    /\ t1.scope \cap t2.scope # {}
    /\ t1.mode = "readwrite" \/ t2.mode = "readwrite"

\* txq[i] may run: every transaction created before it that conflicts with
\* it has finished
Eligible(i) == \A j \in 1..(i - 1) : ~Conflict(txq[j], txq[i])

Remove(q, i) == SubSeq(q, 1, i - 1) \o SubSeq(q, i + 1, Len(q))

RECURSIVE ApplyWrites(_, _, _)
ApplyWrites(store, name, writes) ==
    IF writes = <<>> THEN store
    ELSE LET w == Head(writes)
         IN  ApplyWrites(IF w.store = name THEN Put(store, w.key, w.value) ELSE store,
                         name, Tail(writes))

(***************************************************************************)
(* putWord.                                                                *)
(***************************************************************************)
\* a chain that goes on as soon as either db.put has resolved
payloadEitherWritten(st) == st["info"] = "ok" \/ st["mask"] = "ok"

\* a chain that waits for the info only
payloadInfoWritten(st) == st["info"] = "ok"

\* Promise.all([db.put("info", ...), db.put("mask", ...)]) has resolved
payloadWritten(st) == st["info"] = "ok" /\ st["mask"] = "ok"

\* a promise of the chain has rejected, which .catch handles
putWordCaught(c) ==
    \/ c.pc = "payload" /\ (c.st["info"] = "err" \/ c.st["mask"] = "err")
    \/ c.pc = "flag" /\ c.st["id"] = "err"

\* how the promise returned by putWord settles once .catch has run
putWordCatchOutcome == "resolved"

\* with the handle: the info and the mask are put, each by its own db.put
putWordPayload(c) ==
    [c EXCEPT !.pc = "payload",
              !.st = [NoStatus EXCEPT !["info"] = "pending", !["mask"] = "pending"]]

putWordPayloadTxs(c) ==
    LET uuid == WordUUIds[c.words[1]]
    IN  <<DbPut(c.n, "info", c.n, uuid), DbPut(c.n, "mask", c.n, uuid)>>

\* .then(() => db.put("id", true, uuid)) runs
putWordThen(c) == c.pc = "payload" /\ payloadWritten(c.st)

\* the chain Promise.all([...]).then(() => db.put("id", true, uuid)).catch(() => { })
\* after one of its db.put has settled
putWordChain(c) ==
    IF putWordThen(c)
    THEN [c EXCEPT !.pc = "flag", !.st["id"] = "pending"]
    ELSE IF putWordCaught(c)
    THEN [c EXCEPT !.pc = "done", !.outcome = putWordCatchOutcome]
    ELSE IF c.pc = "flag" /\ c.st["id"] = "ok"
    THEN [c EXCEPT !.pc = "done", !.outcome = "resolved"]
    ELSE c

\* a .then that stores the flag false
putWordChainTxsFalse(c) ==
    IF putWordThen(c)
    THEN <<DbPut(c.n, "id", FALSE, WordUUIds[c.words[1]])>>
    ELSE <<>>

\* the db.put("id", true, uuid) made by .then
putWordChainTxs(c) ==
    IF putWordThen(c)
    THEN <<DbPut(c.n, "id", TRUE, WordUUIds[c.words[1]])>>
    ELSE <<>>

(***************************************************************************)
(* putWords.                                                               *)
(***************************************************************************)
\* the stores of the transaction of putWords
putWordsScope == {"id", "info", "mask"}

\* the requests the loop makes: info and mask of each entry, in order
RECURSIVE putWordsRequests(_, _, _)
putWordsRequests(words, n, entry) ==
    IF entry > Len(words) THEN <<>>
    ELSE LET uuid == WordUUIds[words[entry]]
         IN  <<Request("info", uuid, n, entry), Request("mask", uuid, n, entry)>>
             \o putWordsRequests(words, n, entry + 1)

\* an entry whose flag waits for its info only
entryInfoWritten(ok, entry) == <<entry, "info">> \in ok

\* Promise.all([info_st.put(...), mask_st.put(...)]) of an entry has resolved
entryWritten(ok, entry) == <<entry, "info">> \in ok /\ <<entry, "mask">> \in ok

\* with the handle: the transaction is created and the loop makes its
\* requests; the call then waits for tx.done
putWordsLoop(c) == [c EXCEPT !.pc = "tx"]

putWordsLoopTxs(c) ==
    <<Transaction(c.n, "batch", "readwrite", putWordsScope, putWordsRequests(c.words, c.n, 1))>>

(***************************************************************************)
(* getWord.                                                                *)
(***************************************************************************)
\* a getWord that does not look at the flag
getWordResultAnyFlag(id, id_exists, info, mask) ==
    IF info = <<>> \/ mask = <<>>
    THEN <<>>
    ELSE <<[id |-> id, info |-> info[1], mask |-> mask[1]]>>

\* a getWord that takes a stored flag, true or false, for "available"
getWordResultAnyStoredFlag(id, id_exists, info, mask) ==
    IF id_exists = <<>> \/ info = <<>> \/ mask = <<>>
    THEN <<>>
    ELSE <<[id |-> id, info |-> info[1], mask |-> mask[1]]>>

\* if (!id_exists || info === undefined || mask === undefined) return undefined
\* return { id, info, mask }
getWordResult(id, id_exists, info, mask) ==
    IF id_exists = <<>> \/ id_exists = <<FALSE>> \/ info = <<>> \/ mask = <<>>
    THEN <<>>
    ELSE <<[id |-> id, info |-> info[1], mask |-> mask[1]]>>

\* with the handle: the three db.get are made, each its own transaction
getWordReads(c) == [c EXCEPT !.pc = "reading", !.st = [s \in StoreNames |-> "pending"]]

getWordReadsTxs(c) ==
    LET uuid == WordUUIds[c.words[1]]
    IN  <<DbGet(c.n, "id", uuid), DbGet(c.n, "info", uuid), DbGet(c.n, "mask", uuid)>>

\* a getWord that takes a failed db.get for one that found nothing
getWordAwaitIgnoringErrors(c) ==
    IF \A s \in StoreNames : c.st[s] \in {"ok", "err"}
    THEN [c EXCEPT !.pc = "done", !.outcome = "resolved", !.st = NoStatus, !.got = NoValues,
                   !.result = getWordResult(c.words[1], c.got["id"], c.got["info"],
                                            c.got["mask"])]
    ELSE c

\* await Promise.all([db.get(...), db.get(...), db.get(...)]) after one of
\* the db.get has settled: it throws on the first rejection and otherwise
\* goes on when all three have resolved
getWordAwait(c) ==
    IF \E s \in StoreNames : c.st[s] = "err"
    THEN [c EXCEPT !.pc = "done", !.outcome = "rejected", !.st = NoStatus, !.got = NoValues]
    ELSE IF \A s \in StoreNames : c.st[s] = "ok"
    THEN [c EXCEPT !.pc = "done", !.outcome = "resolved", !.st = NoStatus, !.got = NoValues,
                   !.result = getWordResult(c.words[1], c.got["id"], c.got["info"],
                                            c.got["mask"])]
    ELSE c

(***************************************************************************)
(* Calls.                                                                  *)
(***************************************************************************)
\* the code of a call after `db = await getWordsDB()`
WithHandle(c) ==
    IF c.op = "putWord" THEN putWordPayload(c)
    ELSE IF c.op = "putWords" THEN putWordsLoop(c)
    ELSE getWordReads(c)

WithHandleTxs(c) ==
    IF c.op = "putWord" THEN putWordPayloadTxs(c)
    ELSE IF c.op = "putWords" THEN putWordsLoopTxs(c)
    ELSE getWordReadsTxs(c)

\* the continuation of a call after one of its db.put or db.get has settled
Continuation(c) ==
    IF c.op = "putWord" THEN putWordChain(c)
    ELSE IF c.op = "getWord" THEN getWordAwait(c)
    ELSE c

ContinuationTxs(c) == IF c.op = "putWord" THEN putWordChainTxs(c) ELSE <<>>

\* the callers still running call n: none or one
Running(n) == {p \in Callers : calls[p].n = n /\ calls[p].pc # "done"}

\* the request of call n on `store` settles with `status` and `value`
Settled(c, store, status, value) == [c EXCEPT !.st[store] = status, !.got[store] = value]

\* the calls after the db.put or db.get of call n on `store` has settled and
\* the continuation of the call has run
Settle(n, store, status, value) ==
    [p \in Callers |->
        IF p \in Running(n) THEN Continuation(Settled(calls[p], store, status, value))
        ELSE calls[p]]

\* the transactions that continuation creates
SettleTxs(n, store, status, value) ==
    IF Running(n) = {} THEN <<>>
    ELSE ContinuationTxs(Settled(calls[CHOOSE p \in Running(n) : TRUE], store, status, value))

\* tx.done of the transaction of call n settles, and with it the call
\* (`return tx.done`)
Finish(n, outcome) ==
    [p \in Callers |->
        IF p \in Running(n) THEN [calls[p] EXCEPT !.pc = "done", !.outcome = outcome]
        ELSE calls[p]]

\* getWordsDB: with a handle the call goes on at once; without one openDB
\* is invoked and the call waits for it
getWordsDB(c) ==
    IF wordsDB = <<>> THEN [c EXCEPT !.pc = "opening"]
    ELSE WithHandle([c EXCEPT !.db = wordsDB])

getWordsDBTxs(c) == IF wordsDB = <<>> THEN <<>> ELSE WithHandleTxs(c)

\* the calls known to have settled: those the callers remember and those
\* whose flag is stored
SettledCalls ==
    {calls[q].n : q \in {r \in Callers : calls[r].pc = "done" /\ calls[r].n > 0}}
        \cup {flag_by[k] : k \in DOMAIN flag_by}

\* a caller whose last call has settled calls op(words); the callers are
\* numbered in the order of their first calls
StartCall(p, op, words) ==
    LET c == [NoCall EXCEPT !.op = op, !.n = ncalls + 1, !.words = words,
                            !.after = SettledCalls]
    IN  /\ calls[p].pc = "done"
        /\ \A q \in Callers : q < p => calls[q].n > 0
        /\ ncalls < MaxCalls
        /\ ncalls' = ncalls + 1
        /\ opens' = IF wordsDB = <<>> THEN opens + 1 ELSE opens
        /\ calls' = [calls EXCEPT ![p] = getWordsDB(c)]
        /\ txq' = txq \o getWordsDBTxs(c)
        /\ UNCHANGED <<wordsDB, id_store, info_store, mask_store, nfail, flag_by>>

CallPutWord(p) == \E id \in WordIds : StartCall(p, "putWord", <<id>>)

CallPutWords(p) == \E words \in Batches : StartCall(p, "putWords", words)

CallGetWord(p) == \E id \in WordIds : StartCall(p, "getWord", <<id>>)

\* openDB resolves: the handle is assigned to wordsDB and returned, and the
\* call goes on
OpenDone(p) ==
    LET c == [calls[p] EXCEPT !.db = <<calls[p].n>>]
    IN  /\ calls[p].pc = "opening"
        /\ wordsDB' = <<calls[p].n>>
        /\ calls' = [calls EXCEPT ![p] = WithHandle(c)]
        /\ txq' = txq \o WithHandleTxs(c)
        /\ UNCHANGED <<opens, id_store, info_store, mask_store, ncalls, nfail, flag_by>>

\* openDB rejects: getWordsDB throws and so does the call
OpenError(p) ==
    /\ calls[p].pc = "opening"
    /\ nfail < MaxFail
    /\ nfail' = nfail + 1
    /\ calls' = [calls EXCEPT ![p].pc = "done", ![p].outcome = "rejected"]
    /\ UNCHANGED <<wordsDB, opens, id_store, info_store, mask_store, txq, ncalls, flag_by>>

(***************************************************************************)
(* The storage layer running the transactions.                             *)
(***************************************************************************)
\* the flags among `writes`, as entries of the history flag_by
FlagsBy(writes, n) ==
    [i \in 1..Len(writes) |-> [writes[i] EXCEPT !.value = n]]

\* a store after a transaction that wrote `writes` has committed
Committed(store, name, writes) == ApplyWrites(store, name, writes)

\* an abort that keeps what the transaction wrote before it failed
AbortedKeepingWrites(store, name, writes) == ApplyWrites(store, name, writes)

\* an abort that empties the store
AbortedEmptying(store, name, writes) == EmptyStore

\* a store after a transaction that wrote `writes` has aborted
Aborted(store, name, writes) == store

\* a transaction whose writes the others see as soon as they are made
WrittenThrough(store, name, writes) == ApplyWrites(store, name, writes)

\* a store, as the other transactions see it, while a transaction that
\* wrote `writes` is still active
Uncommitted(store, name, writes) == store

\* db.put resolves: the value is stored
DbPutDone(i) ==
    LET t == txq[i]
        r == t.reqs[1]
    IN  /\ t.kind = "put"
        /\ Eligible(i)
        /\ id_store' = Committed(id_store, "id", <<r>>)
        /\ info_store' = Committed(info_store, "info", <<r>>)
        /\ mask_store' = Committed(mask_store, "mask", <<r>>)
        /\ flag_by' = Committed(flag_by, "id", FlagsBy(<<r>>, t.n))
        /\ txq' = Remove(txq, i) \o SettleTxs(t.n, r.store, "ok", <<>>)
        /\ calls' = Settle(t.n, r.store, "ok", <<>>)
        /\ UNCHANGED <<wordsDB, opens, ncalls, nfail>>

\* db.put rejects: its request or its commit failed, nothing is stored
DbPutError(i) ==
    LET t == txq[i]
        r == t.reqs[1]
    IN  /\ t.kind = "put"
        /\ Eligible(i)
        /\ nfail < MaxFail
        /\ nfail' = nfail + 1
        /\ id_store' = Aborted(id_store, "id", <<r>>)
        /\ info_store' = Aborted(info_store, "info", <<r>>)
        /\ mask_store' = Aborted(mask_store, "mask", <<r>>)
        /\ flag_by' = Aborted(flag_by, "id", FlagsBy(<<r>>, t.n))
        /\ txq' = Remove(txq, i) \o SettleTxs(t.n, r.store, "err", <<>>)
        /\ calls' = Settle(t.n, r.store, "err", <<>>)
        /\ UNCHANGED <<wordsDB, opens, ncalls>>

\* db.get resolves with the stored value or undefined
DbGetDone(i) ==
    LET t == txq[i]
        r == t.reqs[1]
        v == Get(Stores[r.store], r.key)
    IN  /\ t.kind = "get"
        /\ Eligible(i)
        /\ txq' = Remove(txq, i) \o SettleTxs(t.n, r.store, "ok", v)
        /\ calls' = Settle(t.n, r.store, "ok", v)
        /\ UNCHANGED <<wordsDB, opens, id_store, info_store, mask_store, ncalls, nfail, flag_by>>

\* db.get rejects
DbGetError(i) ==
    LET t == txq[i]
        r == t.reqs[1]
    IN  /\ t.kind = "get"
        /\ Eligible(i)
        /\ nfail < MaxFail
        /\ nfail' = nfail + 1
        /\ txq' = Remove(txq, i) \o SettleTxs(t.n, r.store, "err", <<>>)
        /\ calls' = Settle(t.n, r.store, "err", <<>>)
        /\ UNCHANGED <<wordsDB, opens, id_store, info_store, mask_store, ncalls, flag_by>>

\* the next request of the transaction of putWords succeeds; when it
\* completes the payload of its entry, .then(() => id_st.put(true, uuid))
\* adds the request for the flag
TxRequestDone(i) ==
    LET t    == txq[i]
        r    == Head(t.reqs)
        ok   == t.ok \cup {<<r.entry, r.store>>}
        more == IF r.store # "id" /\ entryWritten(ok, r.entry)
                THEN <<Request("id", r.key, TRUE, r.entry)>>
                ELSE <<>>
    IN  /\ t.kind = "batch"
        /\ Eligible(i)
        /\ t.reqs # <<>>
        /\ txq' = [txq EXCEPT ![i].reqs = Tail(t.reqs) \o more,
                              ![i].writes = Append(t.writes, r),
                              ![i].ok = ok]
        /\ id_store' = Uncommitted(id_store, "id", <<r>>)
        /\ info_store' = Uncommitted(info_store, "info", <<r>>)
        /\ mask_store' = Uncommitted(mask_store, "mask", <<r>>)
        /\ flag_by' = Uncommitted(flag_by, "id", FlagsBy(<<r>>, t.n))
        /\ UNCHANGED <<wordsDB, opens, calls, ncalls, nfail>>

\* a request of the transaction of putWords fails: the transaction aborts
\* and tx.done rejects
TxRequestError(i) ==
    LET t == txq[i]
    IN  /\ t.kind = "batch"
        /\ Eligible(i)
        /\ t.reqs # <<>>
        /\ nfail < MaxFail
        /\ nfail' = nfail + 1
        /\ id_store' = Aborted(id_store, "id", t.writes)
        /\ info_store' = Aborted(info_store, "info", t.writes)
        /\ mask_store' = Aborted(mask_store, "mask", t.writes)
        /\ txq' = Remove(txq, i)
        /\ flag_by' = Aborted(flag_by, "id", FlagsBy(t.writes, t.n))
        /\ calls' = Finish(t.n, "rejected")
        /\ UNCHANGED <<wordsDB, opens, ncalls>>

\* the transaction of putWords has no request left and commits: tx.done
\* resolves
TxCommit(i) ==
    LET t == txq[i]
    IN  /\ t.kind = "batch"
        /\ Eligible(i)
        /\ t.reqs = <<>>
        /\ id_store' = Committed(id_store, "id", t.writes)
        /\ info_store' = Committed(info_store, "info", t.writes)
        /\ mask_store' = Committed(mask_store, "mask", t.writes)
        /\ flag_by' = Committed(flag_by, "id", FlagsBy(t.writes, t.n))
        /\ txq' = Remove(txq, i)
        /\ calls' = Finish(t.n, "resolved")
        /\ UNCHANGED <<wordsDB, opens, ncalls, nfail>>

\* the commit of the transaction of putWords fails: it aborts and tx.done
\* rejects
TxCommitError(i) ==
    LET t == txq[i]
    IN  /\ t.kind = "batch"
        /\ Eligible(i)
        /\ t.reqs = <<>>
        /\ nfail < MaxFail
        /\ nfail' = nfail + 1
        /\ id_store' = Aborted(id_store, "id", t.writes)
        /\ info_store' = Aborted(info_store, "info", t.writes)
        /\ mask_store' = Aborted(mask_store, "mask", t.writes)
        /\ txq' = Remove(txq, i)
        /\ flag_by' = Aborted(flag_by, "id", FlagsBy(t.writes, t.n))
        /\ calls' = Finish(t.n, "rejected")
        /\ UNCHANGED <<wordsDB, opens, ncalls>>

(***************************************************************************)
(* Specifications.                                                         *)
(***************************************************************************)
\* the module is loaded: no handle, no call
Loaded ==
    /\ wordsDB = <<>>
    /\ opens = 0
    /\ txq = <<>>
    /\ calls = [p \in Callers |-> NoCall]
    /\ ncalls = 0
    /\ nfail = 0

\* the database "wordsDB" does not exist yet
NewDatabase ==
    /\ id_store = EmptyStore
    /\ info_store = EmptyStore
    /\ mask_store = EmptyStore
    /\ flag_by = EmptyStore

\* the database holds what a putWord of an earlier page load, call 0, stored
\* for the first identifier
EarlierDatabase ==
    /\ id_store = Put(EmptyStore, WordUUIds[FirstWordId], TRUE)
    /\ info_store = Put(EmptyStore, WordUUIds[FirstWordId], 0)
    /\ mask_store = Put(EmptyStore, WordUUIds[FirstWordId], 0)
    /\ flag_by = Put(EmptyStore, WordUUIds[FirstWordId], 0)

CacheIdle == Loaded /\ NewDatabase

Init == CodecIdle /\ Loaded /\ (NewDatabase \/ EarlierDatabase)

CallerNext(p) ==
    \/ CallPutWord(p)
    \/ CallPutWords(p)
    \/ CallGetWord(p)
    \/ OpenDone(p)
    \/ OpenError(p)

StorageNext(i) ==
    \/ DbPutDone(i)
    \/ DbPutError(i)
    \/ DbGetDone(i)
    \/ DbGetError(i)
    \/ TxRequestDone(i)
    \/ TxRequestError(i)
    \/ TxCommit(i)
    \/ TxCommitError(i)

Next ==
    \/ \E p \in Callers : CallerNext(p) /\ UNCHANGED codec_vars
    \/ \E i \in 1..Len(txq) : StorageNext(i) /\ UNCHANGED codec_vars

Spec == Init /\ [][Next]_vars

\* the database "wordsDB" exists already and holds, for the first
\* identifier, any records its schema allows: a flag true or false or none,
\* an info or none, a mask or none; 0 is the payload stored earlier
Persisted(values) == {EmptyStore} \cup {Put(EmptyStore, WordUUIds[FirstWordId], v) : v \in values}

InitPersisted ==
    /\ CodecIdle
    /\ Loaded
    /\ id_store \in Persisted(BOOLEAN)
    /\ info_store \in Persisted({0})
    /\ mask_store \in Persisted({0})
    /\ flag_by = [k \in DOMAIN id_store |-> 0]

\* readers only, and a storage layer that does not fail
ReadNext ==
    \/ \E p \in Callers : (CallGetWord(p) \/ OpenDone(p)) /\ UNCHANGED codec_vars
    \/ \E i \in 1..Len(txq) : DbGetDone(i) /\ UNCHANGED codec_vars

SpecPersisted == InitPersisted /\ [][ReadNext]_vars

\* codec runs only
InitCodec == CodecInit /\ CacheIdle

CodecNext ==
    \/ Pack /\ UNCHANGED cache_vars
    \/ Unpack /\ UNCHANGED cache_vars

SpecCodec == InitCodec /\ [][CodecNext]_vars

\* page codec runs only
InitPage == PageInit /\ CacheIdle

PageNext ==
    \/ PackPage /\ UNCHANGED cache_vars
    \/ UnpackPage /\ UNCHANGED cache_vars

SpecPage == InitPage /\ [][PageNext]_vars

\* runs of a packer and an unpacker made from the same bit_sizes
InitBigInt == BigIntInit /\ CacheIdle

BigIntNext ==
    \/ PackBigInt /\ UNCHANGED cache_vars
    \/ UnpackBigInt /\ UNCHANGED cache_vars

SpecBigInt == InitBigInt /\ [][BigIntNext]_vars

\* runs of an unpacker on given integers
InitUnpack == UnpackInit /\ CacheIdle

UnpackNext == UnpackGiven /\ UNCHANGED cache_vars

SpecUnpack == InitUnpack /\ [][UnpackNext]_vars

(***************************************************************************)
(* Properties.                                                             *)
(***************************************************************************)
\* C1: a WordId whose fields are non-negative and within their widths
\* (surah < 2^8, manuscript < 2^12, word < 2^16, part < 2^4, page < 2^12) is
\* returned unchanged by convertWordUUIdToId(convertWordIdToUUId(id))
RoundTripWordId ==
    (c_pc = "unpacked" /\ InRangeWordId(c_in)) => c_out = c_in

\* the identifier with every field at its maximum has made the round trip
RoundTripWordIdWitness ==
    /\ c_pc = "unpacked"
    /\ c_in = [i \in 1..Len(WordIdWidths) |-> Pow2(WordIdWidths[i]) - 1]
    /\ Len(c_uuid) = 52
    /\ c_out = c_in

\* C2: in every reachable state, whatever the calls, their interleaving and
\* the write failures, a key whose flag in the id store is true has a value in
\* the info store and a value in the mask store
FlagImpliesPayload ==
    \A k \in DOMAIN id_store :
        id_store[k] = TRUE => k \in DOMAIN info_store /\ k \in DOMAIN mask_store

\* a call of this run has set a flag, and after a failed write another key
\* has an info and no mask, and no flag
FlagImpliesPayloadWitness ==
    /\ nfail > 0
    /\ \E k \in DOMAIN id_store : id_store[k] = TRUE /\ flag_by[k] > 0
    /\ \E k \in DOMAIN info_store : k \notin DOMAIN mask_store /\ k \notin DOMAIN id_store

\* C3: a getWord(id) that resolves returns a record exactly when, for the key
\* of id, the id store holds true and the info store and the mask store both
\* hold a value, and the record is made of these values; with no flag, a
\* false flag, or a true flag with the info or the mask missing it returns
\* no record
GetWordRecordOnlyWhenComplete ==
    \A p \in Callers :
        LET c == calls[p]
            k == WordUUIds[c.words[1]]
        IN  (c.op = "getWord" /\ c.outcome = "resolved") =>
                IF /\ Get(id_store, k) = <<TRUE>>
                   /\ k \in DOMAIN info_store
                   /\ k \in DOMAIN mask_store
                THEN c.result = <<[id |-> c.words[1], info |-> info_store[k],
                                   mask |-> mask_store[k]]>>
                ELSE c.result = <<>>

\* a getWord has returned no record for a key with a true flag and an info
\* and no mask
GetWordRecordOnlyWhenCompleteWitness ==
    \E p \in Callers :
        LET c == calls[p]
            k == WordUUIds[c.words[1]]
        IN  /\ c.op = "getWord" /\ c.outcome = "resolved"
            /\ Get(id_store, k) = <<TRUE>>
            /\ k \in DOMAIN info_store
            /\ k \notin DOMAIN mask_store
            /\ c.result = <<>>

FailedPayloadNeverFlags ==
    \A p \in Callers :
        LET c == calls[p]
        IN  (c.op = "putWord" /\ (c.st["info"] = "err" \/ c.st["mask"] = "err")) =>
                /\ c.st["id"] = "none"
                /\ \A i \in 1..Len(txq) : ~(txq[i].n = c.n /\ "id" \in txq[i].scope)
                /\ \A k \in DOMAIN flag_by : flag_by[k] # c.n

\* a putWord has settled after its info was stored and its mask write
\* failed, and its key has no flag
FailedPayloadNeverFlagsWitness ==
    \E p \in Callers :
        LET c == calls[p]
            k == WordUUIds[c.words[1]]
        IN  /\ c.op = "putWord" /\ c.pc = "done"
            /\ c.st["info"] = "ok" /\ c.st["mask"] = "err"
            /\ Get(info_store, k) = <<c.n>>
            /\ Get(id_store, k) = <<>>

\* C6 as stated: a putWord one of whose writes (info, mask or flag) has
\* failed does not resolve: its promise rejects
PutWordReportsFailure ==
    \A p \in Callers :
        LET c == calls[p]
        IN  (/\ c.op = "putWord" /\ c.pc = "done"
             /\ \E s \in StoreNames : c.st[s] = "err")
            => c.outcome = "rejected"

\* C7: a putWords one of whose writes has failed stores nothing: once the
\* call has rejected, no info, no mask and no flag in the stores is a write
\* of the call, so every key holds what it held before or what other calls
\* wrote, and no entry has become available by this call
PutWordsAllOrNothing ==
    \A p \in Callers :
        LET c == calls[p]
        IN  (c.op = "putWords" /\ c.outcome = "rejected") =>
                /\ \A k \in DOMAIN info_store : info_store[k] # c.n
                /\ \A k \in DOMAIN mask_store : mask_store[k] # c.n
                /\ \A k \in DOMAIN flag_by : flag_by[k] # c.n

\* a putWords of two different identifiers, made with an open database, has
\* rejected after a storage failure, and its identifiers, unknown before,
\* have nothing in any store
PutWordsAllOrNothingWitness ==
    \E p \in Callers :
        LET c == calls[p]
        IN  /\ c.op = "putWords" /\ c.outcome = "rejected"
            /\ c.db # <<>>
            /\ Len(c.words) = 2 /\ c.words[1] # c.words[2]
            /\ \A i \in 1..2 : /\ Get(id_store, WordUUIds[c.words[i]]) = <<>>
                               /\ Get(info_store, WordUUIds[c.words[i]]) = <<>>
                               /\ Get(mask_store, WordUUIds[c.words[i]]) = <<>>

\* C8: while the transaction of a putWords is in flight, nothing it has
\* written is in the stores and no getWord has read or returned an info or a
\* mask written by it: no entry of the batch is seen before all of them are
\* written by the commit
NoPartialBatchVisible ==
    \A i \in 1..Len(txq) :
        LET t == txq[i]
        IN  t.kind = "batch" =>
                /\ \A k \in DOMAIN info_store : info_store[k] # t.n
                /\ \A k \in DOMAIN mask_store : mask_store[k] # t.n
                /\ \A k \in DOMAIN flag_by : flag_by[k] # t.n
                /\ \A p \in Callers :
                       calls[p].op = "getWord" =>
                           /\ calls[p].got["info"] # <<t.n>>
                           /\ calls[p].got["mask"] # <<t.n>>
                           /\ \A j \in 1..Len(calls[p].result) :
                                  /\ calls[p].result[j].info # t.n
                                  /\ calls[p].result[j].mask # t.n

\* a batch of two entries has written the info and the mask of the first
\* and nothing yet of the second, and a getWord of the first identifier,
\* made meanwhile, waits with its three db.get behind the transaction
NoPartialBatchVisibleWitness ==
    \E i \in 1..Len(txq), p \in Callers :
        LET t == txq[i]
            c == calls[p]
        IN  /\ t.kind = "batch"
            /\ entryWritten(t.ok, 1)
            /\ <<2, "info">> \notin t.ok
            /\ Len(t.writes) = 2 /\ Len(t.reqs) = 3
            /\ c.op = "getWord" /\ c.pc = "reading" /\ c.n > t.n
            /\ WordUUIds[c.words[1]] = t.writes[1].key
            /\ \A s \in StoreNames :
                   /\ c.st[s] = "pending"
                   /\ \E j \in (i + 1)..Len(txq) : txq[j].n = c.n /\ txq[j].scope = {s}
            /\ Get(info_store, t.writes[1].key) = <<>>

\* C9 as stated: the info and the mask of a record returned by getWord were
\* written by the same put call: if one of them is the write of a putWord
\* call, so is the other
NoTornRecord ==
    \A p, q \in Callers :
        LET c == calls[p]
            d == calls[q]
        IN  (/\ c.op = "getWord" /\ c.outcome = "resolved" /\ c.result # <<>>
             /\ d.op = "putWord")
            => (c.result[1].info = d.n <=> c.result[1].mask = d.n)

\* C11 as stated: while no open has failed openDB is invoked at most once,
\* and all the calls that have a handle have the same handle
OpenedOnce ==
    /\ nfail = 0 => opens <= 1
    /\ \A p, q \in Callers :
           (calls[p].db # <<>> /\ calls[q].db # <<>>) => calls[p].db = calls[q].db

\* C12 as stated: a call made after a call has failed to open the database
\* does not invoke openDB again: it rejects without a handle
OpenFailureIsKept ==
    \A p, q \in Callers :
        LET c == calls[p]
            d == calls[q]
        IN  (/\ c.n > 0 /\ c.pc = "done" /\ c.outcome = "rejected" /\ c.db = <<>>
             /\ c.n \in d.after)
            => (d.pc = "done" /\ d.outcome = "rejected" /\ d.db = <<>>)

\* C13 as stated: after a putWord has resolved, a getWord of the same
\* identifier made afterwards, no other call having settled in between,
\* returns the record with the info and the mask of that putWord
PutWordThenGetWord ==
    \A p, q \in Callers :
        LET c == calls[p]
            d == calls[q]
        IN  (/\ c.op = "putWord" /\ c.pc = "done" /\ c.outcome = "resolved"
             /\ d.op = "getWord" /\ d.outcome = "resolved"
             /\ d.words = c.words
             /\ c.n \in d.after
             /\ d.after \ {c.n} \subseteq c.after)
            => d.result = <<[id |-> c.words[1], info |-> c.n, mask |-> c.n]>>

\* C14: after a putWord all of whose writes succeeded, a getWord of the
\* same identifier made afterwards, no other call having settled in between,
\* returns exactly the info and the mask of that putWord, whatever the
\* identifier had stored before
PutWordReplaces ==
    \A p, q \in Callers :
        LET c == calls[p]
            d == calls[q]
        IN  (/\ c.op = "putWord" /\ c.pc = "done"
             /\ \A s \in StoreNames : c.st[s] = "ok"
             /\ d.op = "getWord" /\ d.outcome = "resolved"
             /\ d.words = c.words
             /\ c.n \in d.after
             /\ d.after \ {c.n} \subseteq c.after)
            => d.result = <<[id |-> c.words[1], info |-> c.n, mask |-> c.n]>>

\* the first identifier was stored by call 0; a putWord of it has succeeded
\* and a getWord made afterwards has returned the info and the mask of that
\* putWord
PutWordReplacesWitness ==
    \E p, q \in Callers :
        LET c == calls[p]
            d == calls[q]
        IN  /\ c.op = "putWord" /\ c.pc = "done"
            /\ \A s \in StoreNames : c.st[s] = "ok"
            /\ c.words = <<FirstWordId>>
            /\ 0 \in c.after
            /\ d.op = "getWord" /\ d.outcome = "resolved"
            /\ d.words = c.words
            /\ d.after = {c.n}
            /\ d.result = <<[id |-> FirstWordId, info |-> c.n, mask |-> c.n]>>

\* C15: when a db.get of a getWord fails, the call rejects in that very
\* step, and a getWord that has rejected stays rejected: it never returns
\* undefined or a record
GetWordReportsReadError ==
    [][\A p \in Callers :
           LET c == calls[p]
           IN  /\ (/\ c.op = "getWord" /\ c.pc = "reading"
                   /\ nfail' = nfail + 1
                   /\ \E i \in 1..Len(txq) : txq[i].n = c.n /\ txq' = Remove(txq, i))
                  => (/\ calls'[p].n = c.n
                      /\ calls'[p].pc = "done"
                      /\ calls'[p].outcome = "rejected"
                      /\ calls'[p].result = <<>>)
               /\ (/\ c.op = "getWord" /\ c.outcome = "rejected"
                   /\ calls'[p].n = c.n)
                  => calls'[p] = c]_vars

\* a getWord that had the handle has rejected, while a db.get of it that was
\* made with the failed one is still to run
GetWordReportsReadErrorWitness ==
    \E p \in Callers :
        LET c == calls[p]
        IN  /\ c.op = "getWord" /\ c.pc = "done" /\ c.outcome = "rejected"
            /\ c.db # <<>>
            /\ nfail = 1
            /\ \E i \in 1..Len(txq) : txq[i].n = c.n

\* C16 as stated: an array whose field i is below 2^bit_sizes[i], the width
\* at the same position, is returned unchanged by the unpacker applied to
\* the packer's result
RoundTripSamePosition ==
    (/\ c_fn = "bigint" /\ c_pc = "unpacked"
     /\ \A i \in 1..Len(c_in) : c_in[i] < Pow2(c_sizes[i]))
    => c_out = c_in

\* C16 amended: bit_sizes lists the widths from the least significant field
\* and the array lists the fields from the most significant one, so an array
\* whose field i is below 2^bit_sizes[n + 1 - i], the width at the mirrored
\* position, is returned unchanged by the unpacker applied to the packer's
\* result
RoundTripMirroredPosition ==
    (/\ c_fn = "bigint" /\ c_pc = "unpacked"
     /\ \A i \in 1..Len(c_in) : c_in[i] < Pow2(c_sizes[Len(c_sizes) + 1 - i]))
    => c_out = c_in

\* with bit_sizes [4, 8, 12, 12] the array of the largest fields,
\* [4095, 4095, 255, 15], has made the round trip
RoundTripMirroredPositionWitness ==
    /\ c_fn = "bigint" /\ c_pc = "unpacked"
    /\ c_sizes = <<4, 8, 12, 12>>
    /\ c_in = [i \in 1..4 |-> Pow2(c_sizes[5 - i]) - 1]
    /\ Len(c_uuid) = 36
    /\ c_out = c_in

\* C17: packBigInt_Factory([4, 8, 12, 12]) applied to [100, 3000, 233, 15]
\* returns 0b1100100101110111000111010011111 = 1690013343, and
\* unpackBigInt_Factory([4, 8, 12, 12]) applied to it returns
\* [100, 3000, 233, 15]
DocumentedExample ==
    (c_fn = "bigint" /\ c_sizes = <<4, 8, 12, 12>> /\ c_in = <<100, 3000, 233, 15>>) =>
        /\ c_pc \in {"packed", "unpacked"} =>
               /\ ToNat(c_uuid) = 1690013343
               /\ Reverse(c_uuid) = <<1, 1, 0, 0, 1, 0, 0, 1, 0, 1, 1, 1, 0, 1, 1, 1,
                                      0, 0, 0, 1, 1, 1, 0, 1, 0, 0, 1, 1, 1, 1, 1>>
        /\ c_pc = "unpacked" => c_out = <<100, 3000, 233, 15>>

\* the documented example has been packed and unpacked
DocumentedExampleWitness ==
    /\ c_fn = "bigint" /\ c_pc = "unpacked"
    /\ c_sizes = <<4, 8, 12, 12>>
    /\ c_in = <<100, 3000, 233, 15>>
    /\ ToNat(c_uuid) = 100 * Pow2(24) + 3000 * Pow2(12) + 233 * Pow2(4) + 15
    /\ c_out = c_in

\* C18: for an in-range WordId [surah, manuscript, word, part, page] the key
\* is surah*2^44 + manuscript*2^32 + word*2^16 + part*2^12 + page: bit by bit,
\* from the lowest, the 12 bits of page, the 4 of part, the 16 of word, the
\* 12 of manuscript and the 8 of surah
WordUUIdLayout ==
    LET FieldBits(x, w) == [j \in 1..w |-> (x \div Pow2(j - 1)) % 2]
    IN  (c_fn = "word" /\ c_pc \in {"packed", "unpacked"} /\ InRangeWordId(c_in)) =>
            c_uuid = Norm(FieldBits(c_in[5], 12) \o FieldBits(c_in[4], 4)
                          \o FieldBits(c_in[3], 16) \o FieldBits(c_in[2], 12)
                          \o FieldBits(c_in[1], 8))

\* [1, 4094, 1, 14, 1] has been packed: 2^44 + 4094*2^32 + 2^16 + 14*2^12 + 1
WordUUIdLayoutWitness ==
    /\ c_fn = "word" /\ c_pc = "packed"
    /\ c_in = <<1, 4094, 1, 14, 1>>
    /\ Len(c_uuid) = 45
    /\ ToNat(SubSeq(c_uuid, 1, 12)) = 1
    /\ ToNat(SubSeq(c_uuid, 13, 16)) = 14
    /\ ToNat(SubSeq(c_uuid, 17, 32)) = 1
    /\ ToNat(SubSeq(c_uuid, 33, 44)) = 4094

\* C19: for a WordId whose fields are within their widths the key is in
\* [0, 2^52): it has at most 52 bits
WordUUIdBelow2Pow52 ==
    (c_fn = "word" /\ c_pc \in {"packed", "unpacked"} /\ InRangeWordId(c_in)) =>
        Len(c_uuid) <= 52

\* the identifier with every field at its maximum has been packed to
\* 2^52 - 1
WordUUIdBelow2Pow52Witness ==
    /\ c_fn = "word" /\ c_pc = "packed"
    /\ c_in = <<255, 4095, 65535, 15, 4095>>
    /\ c_uuid = [i \in 1..52 |-> 1]

\* C20 as stated: a PageId [surah, manuscript, page] with surah < 2^8,
\* manuscript < 2^12 and page < 2^12 is returned unchanged by
\* convertPageUUIdToId(convertPageIdToUUId(id))
RoundTripPageId ==
    (c_fn = "page" /\ c_pc = "unpacked" /\ InRangePageId(c_in)) => c_out = c_in

\* C21 as stated: for an in-range PageId [surah, manuscript, page] the key
\* is surah*2^24 + manuscript*2^12 + page: bit by bit, from the lowest, the
\* 12 bits of page, the 12 of manuscript and the 8 of surah
PageUUIdLayout ==
    LET FieldBits(x, w) == [j \in 1..w |-> (x \div Pow2(j - 1)) % 2]
    IN  (c_fn = "page" /\ c_pc \in {"packed", "unpacked"} /\ InRangePageId(c_in)) =>
            c_uuid = Norm(FieldBits(c_in[3], 12) \o FieldBits(c_in[2], 12)
                          \o FieldBits(c_in[1], 8))

\* C22 as stated: the unpacker made from bit_sizes returns, for any
\* non-negative integer, as many fields as there are widths, field i below
\* 2^bit_sizes[i], the width at the same position
UnpackedSamePosition ==
    (c_fn = "unpack" /\ c_pc = "unpacked") =>
        /\ Len(c_out) = Len(c_sizes)
        /\ \A i \in 1..Len(c_out) : c_out[i] >= 0 /\ c_out[i] < Pow2(c_sizes[i])

\* C22 amended: the unpacker made from bit_sizes returns, for any
\* non-negative integer, also one wider than the widths hold, as many
\* fields as there are widths, field i non-negative and below
\* 2^bit_sizes[n + 1 - i], the width at the mirrored position
UnpackedMirroredPosition ==
    (c_fn = "unpack" /\ c_pc = "unpacked") =>
        /\ Len(c_out) = Len(c_sizes)
        /\ \A i \in 1..Len(c_out) :
               c_out[i] >= 0 /\ c_out[i] < Pow2(c_sizes[Len(c_sizes) + 1 - i])

\* 2^37 - 1, one bit wider than [4, 8, 12, 12] hold, has been unpacked to
\* the largest fields [4095, 4095, 255, 15]
UnpackedMirroredPositionWitness ==
    /\ c_fn = "unpack" /\ c_pc = "unpacked"
    /\ c_sizes = <<4, 8, 12, 12>>
    /\ c_uuid = [j \in 1..37 |-> 1]
    /\ c_out = <<4095, 4095, 255, 15>>

\* C23 as stated: packing truncates a field that does not fit its width:
\* the packed integer equals the pack of the array whose every field is
\* masked with 2^w - 1, w the width of that field, so that no field changes
\* the bits of another
PackTruncates ==
    (c_fn = "bigint" /\ c_pc \in {"packed", "unpacked"}) =>
        c_uuid = packBigInt_Factory(c_sizes,
                     [i \in 1..Len(c_in) |->
                         c_in[i] % Pow2(c_sizes[Len(c_sizes) + 1 - i])])

\* C24: operations on different identifiers do not interfere: different
\* identifiers have different keys, and in every step the flag, the info
\* and the mask stored for an identifier B, and with them what getWord(B)
\* finds, change only in a step that ends a transaction writing the key of
\* B, one made by a putWord or putWords on B itself; a putWord or putWords
\* on another identifier, succeeding or failing, leaves them as they were
NoInterference ==
    [][LET Writes(t, k) ==
               /\ t.mode = "readwrite"
               /\ \/ \E j \in 1..Len(t.reqs) : t.reqs[j].key = k
                  \/ \E j \in 1..Len(t.writes) : t.writes[j].key = k
           Stored(k, ids, infos, masks) == <<Get(ids, k), Get(infos, k), Get(masks, k)>>
           Frame(B) ==
               LET k == WordUUIds[B]
               IN  \/ /\ Stored(k, id_store', info_store', mask_store')
                           = Stored(k, id_store, info_store, mask_store)
                      /\ getWordResult(B, Get(id_store', k), Get(info_store', k),
                                       Get(mask_store', k))
                           = getWordResult(B, Get(id_store, k), Get(info_store, k),
                                           Get(mask_store, k))
                   \/ \E i \in 1..Len(txq) :
                           /\ Writes(txq[i], k)
                           /\ Len(txq') >= Len(txq) - 1
                           /\ SubSeq(txq', 1, Len(txq) - 1) = Remove(txq, i)
       IN  /\ \A A, B \in WordIds : A # B => WordUUIds[A] # WordUUIds[B]
           /\ \A B \in WordIds : Frame(B)]_vars

\* what an earlier page load stored for the first identifier is as it was
\* after a putWord or putWords of this one stored the second identifier
\* and a putWords on the second identifier failed
NoInterferenceWitness ==
    LET A  == CHOOSE id \in WordIds : id # FirstWordId
        kA == WordUUIds[A]
        kB == WordUUIds[FirstWordId]
    IN  /\ kB \in DOMAIN id_store /\ id_store[kB] = TRUE /\ flag_by[kB] = 0
        /\ kB \in DOMAIN info_store /\ info_store[kB] = 0
        /\ kB \in DOMAIN mask_store /\ mask_store[kB] = 0
        /\ kA \in DOMAIN id_store /\ flag_by[kA] = 1
        /\ info_store[kA] = 1 /\ mask_store[kA] = 1
        /\ \E p \in Callers :
               /\ calls[p].op = "putWords" /\ calls[p].n = 2
               /\ calls[p].words = <<A>>
               /\ calls[p].pc = "done" /\ calls[p].outcome = "rejected"
               /\ calls[p].db # <<>>

\* C25: the write of true to the id store is made only after the info write
\* and the mask write of the same entry have succeeded: while the db.put of
\* a flag by putWord is pending, both db.put of the payload of that call
\* have resolved and stored their values; and a request for a flag in the
\* transaction of putWords, pending or done, comes after the successful
\* requests for the info and the mask of its entry
FlagWriteAfterPayloadWrites ==
    \A i \in 1..Len(txq) :
        LET t == txq[i]
            all == t.writes \o t.reqs
        IN  /\ (t.kind = "put" /\ t.reqs[1].store = "id") =>
                /\ \E p \in Callers :
                       /\ calls[p].n = t.n /\ calls[p].op = "putWord"
                       /\ calls[p].pc = "flag"
                       /\ calls[p].st["info"] = "ok" /\ calls[p].st["mask"] = "ok"
                       /\ WordUUIds[calls[p].words[1]] = t.reqs[1].key
                /\ t.reqs[1].key \in DOMAIN info_store
                /\ t.reqs[1].key \in DOMAIN mask_store
                /\ \A j \in 1..Len(txq) :
                       txq[j].n = t.n => (j = i \/ txq[j].kind # "put")
            /\ t.kind = "batch" =>
                \A j \in 1..Len(all) :
                    all[j].store = "id" =>
                        /\ <<all[j].entry, "info">> \in t.ok
                        /\ <<all[j].entry, "mask">> \in t.ok
                        /\ \A s \in {"info", "mask"} :
                               \E m \in 1..Len(t.writes) :
                                   /\ m < j
                                   /\ t.writes[m].store = s
                                   /\ t.writes[m].entry = all[j].entry
                                   /\ t.writes[m].key = all[j].key

\* the flag of a putWord and the flag of the first entry of a putWords are
\* both about to be written, after their payloads
FlagWriteAfterPayloadWritesWitness ==
    \E i, j \in 1..Len(txq) :
        /\ txq[i].kind = "put" /\ txq[i].reqs[1].store = "id"
        /\ txq[j].kind = "batch"
        /\ \E m \in 1..Len(txq[j].reqs) :
               txq[j].reqs[m].store = "id" /\ txq[j].reqs[m].entry = 1
        /\ Len(txq[j].writes) >= 2

\* C26: no operation writes false to the id store: every key of the id
\* store maps to true, and so does every write to the id store that a
\* transaction has made or is about to make
OnlyTrueFlags ==
    /\ \A k \in DOMAIN id_store : id_store[k] = TRUE
    /\ \A i \in 1..Len(txq) :
           LET all == txq[i].writes \o txq[i].reqs
           IN  \A j \in 1..Len(all) :
                   (txq[i].mode = "readwrite" /\ all[j].store = "id") => all[j].value = TRUE

\* the flags of both identifiers have been written by the two calls of this
\* page load, and both are true
OnlyTrueFlagsWitness ==
    /\ txq = <<>>
    /\ \A id \in WordIds : WordUUIds[id] \in DOMAIN id_store
    /\ {flag_by[k] : k \in DOMAIN flag_by} = {1, 2}
    /\ \E p, q \in Callers : calls[p].op = "putWord" /\ calls[q].op = "putWords"

\* C27: no operation removes a key: in every step the key sets of the id,
\* info and mask stores stay or grow, and a key whose flag is true has, after
\* the step, a true flag, an info and a mask
KeysOnlyGrow ==
    [][/\ DOMAIN id_store \subseteq DOMAIN id_store'
       /\ DOMAIN info_store \subseteq DOMAIN info_store'
       /\ DOMAIN mask_store \subseteq DOMAIN mask_store'
       /\ \A k \in DOMAIN id_store :
              id_store[k] = TRUE =>
                  /\ id_store'[k] = TRUE
                  /\ k \in DOMAIN info_store'
                  /\ k \in DOMAIN mask_store']_vars

\* a putWords of both identifiers, the stored one last, was rejected by the
\* storage layer; the record an earlier page load stored is still complete
\* and nothing is stored for the other identifier
KeysOnlyGrowWitness ==
    LET A  == CHOOSE id \in WordIds : id # FirstWordId
        kB == WordUUIds[FirstWordId]
    IN  /\ DOMAIN id_store = {kB} /\ id_store[kB] = TRUE
        /\ DOMAIN info_store = {kB}
        /\ DOMAIN mask_store = {kB}
        /\ \E p \in Callers :
               /\ calls[p].op = "putWords" /\ calls[p].words = <<A, FirstWordId>>
               /\ calls[p].pc = "done" /\ calls[p].outcome = "rejected"
               /\ calls[p].db # <<>>

====
